---- MODULE Spec2Model ----
(***************************************************************************)
(* A model of configs/filter_smiles.py: the SMILES tokenizer, the          *)
(* validator built on the external RDKit calls, and the file processor     *)
(* with its report.                                                        *)
(*                                                                         *)
(* A Python str is a sequence of one-character strings; Python indices are *)
(* 0-based and kept 0-based in the variables (smiles[i] is smiles[i + 1]   *)
(* here).                                                                  *)
(***************************************************************************)
EXTENDS Integers, Sequences, FiniteSets, TLC

VARIABLES
    \* tokenize_smiles(smiles): the scan's locals
    tok_smiles, i, tokens, tok_pc,
    \* clean_smiles_file: the input file, the loop's locals, the output file
    infile, line_num, valid_count, invalid_count, invalid_reasons, outfile,
    pc, run, call

tokvars  == <<tok_smiles, i, tokens, tok_pc>>
filevars == <<infile, line_num, valid_count, invalid_count, invalid_reasons,
              outfile, pc, run, call>>
vars     == <<tok_smiles, i, tokens, tok_pc, infile, line_num, valid_count,
              invalid_count, invalid_reasons, outfile, pc, run, call>>

(***************************************************************************)
(* Bounds of the model.                                                    *)
(***************************************************************************)
\* longest string the tokenizer is run on, over TokAlphabet
MaxTokLen == 4
\* most lines of an input file
MaxLines == 3

(***************************************************************************)
(* Python str and set primitives, as the code uses them.                   *)
(***************************************************************************)
MinOf(S) == CHOOSE x \in S : \A y \in S : x <= y

\* F applied to the value of v.  An operator's argument is evaluated each
\* time the body uses it; a value every pass of a recursion reads again is
\* taken through With, so that it is evaluated once.
With(v, F(_)) == CHOOSE ret \in {F(x) : x \in {v}} : TRUE

Range(s) == {s[k] : k \in 1..Len(s)}

\* s[a:b] for 0 <= a and 0 <= b: empty when b <= a, cut at len(s)
Slice(s, a, b) == SubSeq(s, a + 1, IF b < Len(s) THEN b ELSE Len(s))

\* s.find(c, start): the first index >= start holding c, or -1
Find(s, c, start) ==
    LET hits == {k \in start..(Len(s) - 1) : s[k + 1] = c}
    IN  IF hits = {} THEN -1 ELSE MinOf(hits)

DigitChars == {"0", "1", "2", "3", "4", "5", "6", "7", "8", "9"}

\* s.isdigit(): non-empty and every character a digit
IsDigit(s) == Len(s) > 0 /\ \A k \in 1..Len(s) : s[k] \in DigitChars

(***************************************************************************)
(* get_allowed_tokens                                                      *)
(***************************************************************************)
get_allowed_tokens ==
    { <<"o">>, <<"$">>, <<"9">>, <<"[", "N", "-", "]">>, <<"C", "l">>,
      <<"[", "O", "-", "]">>, <<"5">>, <<"-">>, <<"s">>, <<"6">>, <<"=">>,
      <<"7">>, <<"O">>, <<"4">>, <<")">>, <<"c">>, <<"#">>,
      <<"[", "n", "+", "]">>, <<"[", "n", "H", "]">>, <<"n">>,
      <<"%", "1", "0">>, <<"1">>, <<"N">>, <<"^">>, <<"[", "S", "+", "]">>,
      <<"8">>, <<"F">>, <<"[", "N", "+", "]">>, <<"C">>, <<"(">>, <<"3">>,
      <<"2">>, <<"B", "r">>, <<"S">> }

\* tokenize_step with the bound of the '%' look-ahead off by one
tokenize_step_short(smiles, idx, toks) ==
    IF smiles[idx + 1] = "["
    THEN LET end == Find(smiles, "]", idx) + 1
         IN  [i |-> end, tokens |-> toks \cup {Slice(smiles, idx, end)}]
    ELSE IF smiles[idx + 1] = "%"
    THEN IF idx + 3 < Len(smiles) /\ IsDigit(Slice(smiles, idx + 1, idx + 3))
         THEN [i |-> idx + 3, tokens |-> toks \cup {Slice(smiles, idx, idx + 3)}]
         ELSE [i |-> idx + 1, tokens |-> toks \cup {<<smiles[idx + 1]>>}]
    ELSE [i |-> idx + 1, tokens |-> toks \cup {<<smiles[idx + 1]>>}]

(***************************************************************************)
(* tokenize_smiles: one pass of the while loop's body, from index i with   *)
(* the token set so far, to the next index and token set.                  *)
(***************************************************************************)
tokenize_step(smiles, idx, toks) ==
    IF smiles[idx + 1] = "["
    THEN LET end == Find(smiles, "]", idx) + 1
         IN  [i |-> end, tokens |-> toks \cup {Slice(smiles, idx, end)}]
    ELSE IF smiles[idx + 1] = "%"
    THEN IF idx + 2 < Len(smiles) /\ IsDigit(Slice(smiles, idx + 1, idx + 3))
         THEN [i |-> idx + 3, tokens |-> toks \cup {Slice(smiles, idx, idx + 3)}]
         ELSE [i |-> idx + 1, tokens |-> toks \cup {<<smiles[idx + 1]>>}]
    ELSE [i |-> idx + 1, tokens |-> toks \cup {<<smiles[idx + 1]>>}]

(***************************************************************************)
(* tokenize_smiles as its callers see it: the loop run to its exit.  A     *)
(* pass that does not advance the index is a '[' with no ']' after it      *)
(* (find gives -1, so end is 0); the scan then starts over from index 0    *)
(* and comes back to the same '[', so the call never returns:              *)
(* halts = FALSE.                                                          *)
(***************************************************************************)
RECURSIVE tokenize_from(_, _, _)
tokenize_from(smiles, idx, toks) ==
    IF ~(idx < Len(smiles))
    THEN [halts |-> TRUE, tokens |-> toks]
    ELSE With(tokenize_step(smiles, idx, toks),
              LAMBDA st : IF st.i <= idx
                          THEN [halts |-> FALSE, tokens |-> st.tokens]
                          ELSE tokenize_from(smiles, st.i, st.tokens))

tokenize_smiles(smiles) == With(smiles, LAMBDA s : tokenize_from(s, 0, {}))

(***************************************************************************)
(* The tokenizer on its own: every string over TokAlphabet up to MaxTokLen *)
(* and the three strings the documentation gives, scanned one pass of the  *)
(* loop at a time.                                                         *)
(***************************************************************************)
TokAlphabet == {"[", "]", "%", "1", "C"}

StringsUpTo(A, n) == UNION {[1..k -> A] : k \in 0..n}

DocStrings ==
    { <<"c", "1", "c", "c", "c", "c", "c", "1">>,
      <<"[", "n", "H", "]">>,
      <<"%", "1", "0", "C", "C">> }

TokInputs == StringsUpTo(TokAlphabet, MaxTokLen) \cup DocStrings

FileIdle ==
    /\ infile = <<>>
    /\ line_num = 0
    /\ valid_count = 0
    /\ invalid_count = 0
    /\ invalid_reasons = <<>>
    /\ outfile = <<>>
    /\ pc = "idle"
    /\ run = 0
    /\ call = [made |-> FALSE]

TokInit ==
    /\ tok_smiles \in TokInputs
    /\ i = 0
    /\ tokens = {}
    /\ tok_pc = "loop"
    /\ FileIdle

\* while i < len(smiles): one pass of the body
TokenizePass ==
    /\ tok_pc = "loop"
    /\ i < Len(tok_smiles)
    /\ LET st == tokenize_step(tok_smiles, i, tokens)
       IN  /\ i' = st.i
           /\ tokens' = st.tokens
    /\ UNCHANGED <<tok_smiles, tok_pc>>
    /\ UNCHANGED filevars

\* the loop's exit: return tokens
TokenizeReturn ==
    /\ tok_pc = "loop"
    /\ ~(i < Len(tok_smiles))
    /\ tok_pc' = "done"
    /\ UNCHANGED <<tok_smiles, i, tokens>>
    /\ UNCHANGED filevars

TokNext == TokenizePass \/ TokenizeReturn

SpecTok == TokInit /\ [][TokNext]_vars

(***************************************************************************)
(* Python str methods the file processor uses.                             *)
(***************************************************************************)
\* the characters str.strip() and str.split(None) treat as whitespace
Whitespace == {" ", "\t", "\n"}

RECURSIVE lstrip(_)
lstrip(s) ==
    With(s, LAMBDA v : IF v # <<>> /\ Head(v) \in Whitespace THEN lstrip(Tail(v)) ELSE v)

RECURSIVE rstrip(_)
rstrip(s) ==
    With(s, LAMBDA v : IF v # <<>> /\ v[Len(v)] \in Whitespace
                       THEN rstrip(SubSeq(v, 1, Len(v) - 1))
                       ELSE v)

\* line.strip()
strip(s) == rstrip(lstrip(s))

\* line.split(None, 1): the first word, and the rest after the run of
\* whitespace that follows it when there is a rest
split_once(line) ==
    With(lstrip(line),
         LAMBDA s :
            IF s = <<>> THEN <<>>
            ELSE LET stops == {k \in 1..Len(s) : s[k] \in Whitespace}
                     n     == IF stops = {} THEN Len(s) ELSE MinOf(stops) - 1
                 IN  With(lstrip(SubSeq(s, n + 1, Len(s))),
                          LAMBDA rest : IF rest = <<>> THEN <<SubSeq(s, 1, n)>>
                                        ELSE <<SubSeq(s, 1, n), rest>>))

\* str(n) of a natural number
RECURSIVE str_int(_)
str_int(n) ==
    LET digit == <<"0", "1", "2", "3", "4", "5", "6", "7", "8", "9">>[(n % 10) + 1]
    IN  IF n < 10 THEN <<digit>> ELSE str_int(n \div 10) \o <<digit>>

RECURSIVE Concat(_)
Concat(ss) ==
    With(ss, LAMBDA v : IF v = <<>> THEN <<>> ELSE Head(v) \o Concat(Tail(v)))

\* the lines a text file iterates over: each through its "\n", and a last
\* one without it when the text does not end in "\n"
RECURSIVE file_lines(_)
file_lines(text) ==
    With(text,
         LAMBDA v :
            IF v = <<>> THEN <<>>
            ELSE With({k \in 1..Len(v) : v[k] = "\n"},
                      LAMBDA ends :
                         IF ends = {} THEN <<v>>
                         ELSE <<SubSeq(v, 1, MinOf(ends))>>
                                \o file_lines(SubSeq(v, MinOf(ends) + 1, Len(v)))))

(***************************************************************************)
(* The external library.  Chem.MolFromSmiles and Chem.MolToSmiles are      *)
(* deterministic functions of their argument; the model holds their        *)
(* outcome on a sample of inputs.  A molecule is identified with its       *)
(* canonical SMILES.                                                       *)
(***************************************************************************)
CCO  == <<"C", "C", "O">>
OCC  == <<"O", "C", "C">>
C1   == <<"C">>
CH4  == <<"[", "C", "H", "4", "]">>
CCl  == <<"C", "C", "l">>
ClC  == <<"C", "l", "C">>
CBr  == <<"C", "B", "r">>
Si   == <<"[", "S", "i", "]">>
\* strings the parser rejects: an open branch, a lone bond symbol
Copen   == <<"C", "(">>
Hash    == <<"#">>
HashCCO == <<"#", "C", "C", "O">>
\* a str the binding cannot hand to the library: the call raises
Surrogate == <<"\\udc80">>

RDKitCanonical ==
    { <<CCO, CCO>>, <<OCC, CCO>>, <<C1, C1>>, <<CH4, C1>>, <<CCl, CCl>>,
      <<ClC, CCl>>, <<CBr, CBr>>, <<Si, Si>> }

RDKitRejects == {Copen, Hash, HashCCO}

RDKitRaises == {Surrogate}

\* mol = Chem.MolFromSmiles(smiles)
MolFromSmiles(smiles) ==
    With(smiles,
         LAMBDA s :
            IF \E e \in RDKitCanonical : e[1] = s
            THEN [kind |-> "Mol",
                  canonical |-> (CHOOSE e \in RDKitCanonical : e[1] = s)[2]]
            ELSE IF s \in RDKitRejects THEN [kind |-> "None"]
            ELSE IF s \in RDKitRaises THEN [kind |-> "Raise", msg |-> "str(e)"]
            ELSE [kind |-> "Unsampled"])

\* canonical_smiles = Chem.MolToSmiles(mol)
MolToSmiles(mol) == mol.canonical

(***************************************************************************)
(* is_valid_smiles: the set of (is_valid, result) pairs a call can return. *)
(* The reason of an unsupported-token rejection is the text of a Python    *)
(* set, whose order of elements is not fixed: set_repr is any ordering.    *)
(* A call whose tokenizer never returns has no result.                     *)
(***************************************************************************)
Reason(text, set_repr, msg) == [text |-> text, set_repr |-> set_repr, msg |-> msg]

\* str(a_set): the elements in some order
SetRepr(S) ==
    {f \in [1..Cardinality(S) -> S] : \A a, b \in 1..Cardinality(S) : a # b => f[a] # f[b]}

\* is_valid_smiles without the "mol is None" return: MolToSmiles(None) raises
is_valid_smiles_no_none_check(smiles, allowed_tokens) ==
    With(MolFromSmiles(smiles),
         LAMBDA mol :
            IF mol.kind \in {"Raise", "None"}
            THEN {[is_valid |-> FALSE, result |-> Reason("Error: ", <<>>, "str(e)")]}
            ELSE IF mol.kind = "Unsampled" THEN {}
            ELSE With(tokenize_smiles(MolToSmiles(mol)),
                      LAMBDA scan :
                         LET canonical_smiles == MolToSmiles(mol)
                             unsupported_tokens == scan.tokens \ allowed_tokens
                         IN  IF ~scan.halts THEN {}
                             ELSE IF unsupported_tokens # {}
                             THEN {[is_valid |-> FALSE,
                                    result |-> Reason("Unsupported tokens: ", r, "")] :
                                       r \in SetRepr(unsupported_tokens)}
                             ELSE {[is_valid |-> TRUE, result |-> canonical_smiles]}))

\* is_valid_smiles tokenizing the string it was given, not the canonical one
is_valid_smiles_raw_tokens(smiles, allowed_tokens) ==
    With(MolFromSmiles(smiles),
         LAMBDA mol :
            IF mol.kind = "Raise"
            THEN {[is_valid |-> FALSE, result |-> Reason("Error: ", <<>>, mol.msg)]}
            ELSE IF mol.kind = "None"
            THEN {[is_valid |-> FALSE,
                   result |-> Reason("Invalid RDKit molecule", <<>>, "")]}
            ELSE IF mol.kind = "Unsampled" THEN {}
            ELSE With(tokenize_smiles(smiles),
                      LAMBDA scan :
                         LET canonical_smiles == MolToSmiles(mol)
                             unsupported_tokens == scan.tokens \ allowed_tokens
                         IN  IF ~scan.halts THEN {}
                             ELSE IF unsupported_tokens # {}
                             THEN {[is_valid |-> FALSE,
                                    result |-> Reason("Unsupported tokens: ", r, "")] :
                                       r \in SetRepr(unsupported_tokens)}
                             ELSE {[is_valid |-> TRUE, result |-> canonical_smiles]}))

\* try: mol = MolFromSmiles(smiles) ... except Exception as e
is_valid_smiles(smiles, allowed_tokens) ==
    With(MolFromSmiles(smiles),
         LAMBDA mol :
            IF mol.kind = "Raise"
            THEN {[is_valid |-> FALSE, result |-> Reason("Error: ", <<>>, mol.msg)]}
            ELSE IF mol.kind = "None"
            THEN {[is_valid |-> FALSE,
                   result |-> Reason("Invalid RDKit molecule", <<>>, "")]}
            ELSE IF mol.kind = "Unsampled" THEN {}
            ELSE With(tokenize_smiles(MolToSmiles(mol)),
                      LAMBDA scan :
                         LET canonical_smiles == MolToSmiles(mol)
                             unsupported_tokens == scan.tokens \ allowed_tokens
                         IN  IF ~scan.halts THEN {}
                             ELSE IF unsupported_tokens # {}
                             THEN {[is_valid |-> FALSE,
                                    result |-> Reason("Unsupported tokens: ", r, "")] :
                                       r \in SetRepr(unsupported_tokens)}
                             ELSE {[is_valid |-> TRUE, result |-> canonical_smiles]}))

(***************************************************************************)
(* clean_smiles_file.  The input file is fixed when the run starts; each   *)
(* action below is one pass of the for loop's body, the loop's exit, or    *)
(* the report.                                                             *)
(***************************************************************************)
NL  == <<"\n">>
TAB == <<"\t">>
SP  == <<" ">>

InputLines ==
    { NL,
      SP \o NL,
      HashCCO \o NL,
      SP \o Hash \o SP \o <<"c">> \o NL,
      CCO \o NL,
      OCC \o TAB \o <<"n", "1">> \o NL,
      SP \o CCO \o SP \o SP \o <<"a", " ", "b">> \o SP \o NL,
      C1 \o TAB \o <<"n", "1">> \o NL,
      CH4 \o NL,
      CCl \o NL,
      ClC \o SP \o <<"x">> \o NL,
      CBr \o NL,
      Si \o SP \o <<"s", "i">> \o NL,
      Copen \o NL,
      Copen \o SP \o <<"b", "a", "d">> \o NL,
      Surrogate \o NL }

InputFiles == UNION {[1..k -> InputLines] : k \in 0..MaxLines}

TokIdle ==
    /\ tok_smiles = <<>>
    /\ i = 0
    /\ tokens = {}
    /\ tok_pc = "idle"

\* the state at "with open(input_file, 'r') as infile, open(output_file, 'w')"
Init ==
    /\ infile \in InputFiles
    /\ line_num = 0
    /\ valid_count = 0
    /\ invalid_count = 0
    /\ invalid_reasons = <<>>
    /\ outfile = <<>>
    /\ pc = "loop"
    /\ run = 1
    /\ call = [made |-> FALSE]
    /\ TokIdle

\* line = line.strip(), for the line the loop reads next
line == With(infile[line_num + 1], LAMBDA raw : strip(raw))

\* if not line or line.startswith('#'): continue -- without the '#' test
is_skipped_no_comment(l) == l = <<>>

\* if not line or line.startswith('#')
is_skipped(l) == IF l = <<>> THEN TRUE ELSE Head(l) = "#"

\* name, with the loop counting lines from 0
record_name_from_zero(parts, n) ==
    IF Len(parts) > 1 THEN parts[2] ELSE <<"m", "o", "l", "_">> \o str_int(n - 1)

\* name, never taken from the line
record_name_never_given(parts, n) == <<"m", "o", "l", "_">> \o str_int(n)

\* name = parts[1] if len(parts) > 1 else f"mol_{line_num}"
record_name(parts, n) ==
    IF Len(parts) > 1 THEN parts[2] ELSE <<"m", "o", "l", "_">> \o str_int(n)

\* invalid_reasons[reason] = invalid_reasons.get(reason, 0) + 1
tally(reasons, reason) ==
    [r \in DOMAIN reasons \cup {reason} |->
        (IF r \in DOMAIN reasons THEN reasons[r] ELSE 0) + (IF r = reason THEN 1 ELSE 0)]

\* a blank or comment line: continue
SkipLine ==
    /\ pc = "loop"
    /\ line_num < Len(infile)
    /\ is_skipped(line)
    /\ line_num' = line_num + 1
    /\ call' = [made |-> FALSE]
    /\ UNCHANGED <<infile, valid_count, invalid_count, invalid_reasons, outfile, pc, run>>
    /\ UNCHANGED tokvars

\* a record classified valid: written to the output file
WriteRecord ==
    /\ pc = "loop"
    /\ line_num < Len(infile)
    /\ ~is_skipped(line)
    /\ \E parts \in {split_once(line)} :
         LET smiles == parts[1]
             name   == record_name(parts, line_num + 1)
         IN  \E r \in is_valid_smiles(smiles, get_allowed_tokens) :
               /\ r.is_valid
               /\ outfile' = Append(outfile, r.result \o TAB \o name \o NL)
               /\ valid_count' = valid_count + 1
               /\ call' = [made |-> TRUE, smiles |-> smiles,
                           is_valid |-> r.is_valid, result |-> r.result]
    /\ line_num' = line_num + 1
    /\ UNCHANGED <<infile, invalid_count, invalid_reasons, pc, run>>
    /\ UNCHANGED tokvars

\* a record classified invalid, and the run stopped there
TallyRecord_stops ==
    /\ pc = "loop"
    /\ line_num < Len(infile)
    /\ ~is_skipped(line)
    /\ \E parts \in {split_once(line)} :
         LET smiles == parts[1]
         IN  \E r \in is_valid_smiles(smiles, get_allowed_tokens) :
               /\ ~r.is_valid
               /\ invalid_count' = invalid_count + 1
               /\ invalid_reasons' = tally(invalid_reasons, r.result)
               /\ call' = [made |-> TRUE, smiles |-> smiles,
                           is_valid |-> r.is_valid, result |-> r.result]
    /\ line_num' = line_num + 1
    /\ pc' = "report"
    /\ UNCHANGED <<infile, valid_count, outfile, run>>
    /\ UNCHANGED tokvars

\* a record classified invalid: counted under its reason
TallyRecord ==
    /\ pc = "loop"
    /\ line_num < Len(infile)
    /\ ~is_skipped(line)
    /\ \E parts \in {split_once(line)} :
         LET smiles == parts[1]
         IN  \E r \in is_valid_smiles(smiles, get_allowed_tokens) :
               /\ ~r.is_valid
               /\ invalid_count' = invalid_count + 1
               /\ invalid_reasons' = tally(invalid_reasons, r.result)
               /\ call' = [made |-> TRUE, smiles |-> smiles,
                           is_valid |-> r.is_valid, result |-> r.result]
    /\ line_num' = line_num + 1
    /\ UNCHANGED <<infile, valid_count, outfile, pc, run>>
    /\ UNCHANGED tokvars

\* the input is exhausted: both files are closed, the report begins
EndOfFile ==
    /\ pc = "loop"
    /\ line_num = Len(infile)
    /\ pc' = "report"
    /\ UNCHANGED <<infile, line_num, valid_count, invalid_count, invalid_reasons,
                   outfile, run, call>>
    /\ UNCHANGED tokvars

\* the report: valid_count/(valid_count + invalid_count) is evaluated as is
Report ==
    /\ pc = "report"
    /\ \/ /\ valid_count + invalid_count = 0
          /\ pc' = "ZeroDivisionError"
       \/ /\ valid_count + invalid_count # 0
          /\ pc' = "done"
    /\ UNCHANGED <<infile, line_num, valid_count, invalid_count, invalid_reasons,
                   outfile, run, call>>
    /\ UNCHANGED tokvars

\* the program run once more, its input file the output file it left
Rerun ==
    /\ pc \in {"done", "ZeroDivisionError"}
    /\ run = 1
    /\ infile' = file_lines(Concat(outfile))
    /\ line_num' = 0
    /\ valid_count' = 0
    /\ invalid_count' = 0
    /\ invalid_reasons' = <<>>
    /\ outfile' = <<>>
    /\ pc' = "loop"
    /\ run' = 2
    /\ call' = [made |-> FALSE]
    /\ UNCHANGED tokvars

Next == SkipLine \/ WriteRecord \/ TallyRecord \/ EndOfFile \/ Report \/ Rerun

Spec == Init /\ [][Next]_vars

\* the interpreter runs the program on: no step that can be taken is put off
\* for ever
SpecLive == Init /\ [][Next]_vars /\ WF_vars(Next)

(***************************************************************************)
(* The documented scan, stated on the string that is left to read: a       *)
(* bracketed group through its first ']', '%' with two digits, or one      *)
(* character.                                                              *)
(***************************************************************************)
\* each '[' has a ']' somewhere after it
EveryBracketCloses(s) ==
    \A k \in 1..Len(s) : s[k] = "[" => \E j \in (k + 1)..Len(s) : s[j] = "]"

RECURSIVE ScanTokens(_)
ScanTokens(s) ==
    IF s = <<>> THEN {}
    ELSE IF Head(s) = "["
    THEN LET close == MinOf({j \in 2..Len(s) : s[j] = "]"})
         IN  {SubSeq(s, 1, close)} \cup ScanTokens(SubSeq(s, close + 1, Len(s)))
    ELSE IF Head(s) = "%" /\ Len(s) >= 3 /\ s[2] \in DigitChars /\ s[3] \in DigitChars
    THEN {SubSeq(s, 1, 3)} \cup ScanTokens(SubSeq(s, 4, Len(s)))
    ELSE {<<Head(s)>>} \cup ScanTokens(Tail(s))

\* C3: on a string in which every '[' has a later ']', tokenize_smiles
\* returns exactly the token set of the documented left-to-right scan
\* (bracketed group, '%' and two digits, or a single character), so
\* 'c1ccccc1' gives {c, 1}, '[nH]' gives {'[nH]'}, '%10CC' gives {'%10', 'C'}.
C3_TokenizeMatchesScan ==
    (tok_pc = "done" /\ EveryBracketCloses(tok_smiles)) =>
        /\ tokens = ScanTokens(tok_smiles)
        /\ tok_smiles = <<"c", "1", "c", "c", "c", "c", "c", "1">>
              => tokens = {<<"c">>, <<"1">>}
        /\ tok_smiles = <<"[", "n", "H", "]">>
              => tokens = {<<"[", "n", "H", "]">>}
        /\ tok_smiles = <<"%", "1", "0", "C", "C">>
              => tokens = {<<"%", "1", "0">>, <<"C">>}

\* a returned scan that met a bracketed group and a '%' with no two digits
C3_Witness ==
    /\ tok_pc = "done"
    /\ EveryBracketCloses(tok_smiles)
    /\ tokens = {<<"[", "C", "]">>, <<"%">>}

\* C10: every pass of the tokenizer's loop moves the scan index strictly
\* forward (so the scan of any finite string ends, a '[' with no ']' after
\* it included).
C10_IndexIncreases == [][TokenizePass => i' > i]_vars

(***************************************************************************)
(* What the documentation says of a line, stated on the raw line.          *)
(***************************************************************************)
NonBlank(raw) == {k \in 1..Len(raw) : raw[k] \notin Whitespace}

\* blank after stripping, or its first non-blank character is '#'
IsBlankOrComment(raw) ==
    IF NonBlank(raw) = {} THEN TRUE ELSE raw[MinOf(NonBlank(raw))] = "#"

MaxOf(S) == CHOOSE x \in S : \A y \in S : x >= y

\* <SMILES>: the first run of non-blank characters
SmilesField(raw) ==
    LET first == MinOf(NonBlank(raw))
        stops == {k \in first..Len(raw) : raw[k] \in Whitespace}
    IN  SubSeq(raw, first, IF stops = {} THEN Len(raw) ELSE MinOf(stops) - 1)

\* <name>: what follows the whitespace after <SMILES>, to the last non-blank
\* character; mol_<line number> when nothing follows
NameField(raw, n) ==
    LET first == MinOf(NonBlank(raw))
        after == {k \in NonBlank(raw) : \E w \in first..k : raw[w] \in Whitespace}
    IN  IF after = {} THEN <<"m", "o", "l", "_">> \o str_int(n)
        ELSE SubSeq(raw, MinOf(after), MaxOf(NonBlank(raw)))

\* the records among the first n lines of a file
NumRecords(f, n) == Cardinality({k \in 1..n : ~IsBlankOrComment(f[k])})

\* the canonical string of a record the validator classifies valid
ValidCanonical(smiles) ==
    {r.result : r \in {q \in is_valid_smiles(smiles, get_allowed_tokens) : q.is_valid}}

RECURSIVE ExpectedOutput(_, _)
ExpectedOutput(f, n) ==
    IF n = 0 THEN <<>>
    ELSE LET before == ExpectedOutput(f, n - 1)
         IN  IF IsBlankOrComment(f[n]) THEN before
             ELSE IF ValidCanonical(SmilesField(f[n])) = {} THEN before
             ELSE Append(before,
                         (CHOOSE c \in ValidCanonical(SmilesField(f[n])) : TRUE)
                            \o <<"\t">> \o NameField(f[n], n) \o <<"\n">>)

RECURSIVE SumTally(_, _)
SumTally(reasons, keys) ==
    IF keys = {} THEN 0
    ELSE LET r == CHOOSE x \in keys : TRUE
         IN  reasons[r] + SumTally(reasons, keys \ {r})

RECURSIVE IsConcatOfAllowed(_)
IsConcatOfAllowed(s) ==
    IF s = <<>> THEN TRUE
    ELSE \E t \in get_allowed_tokens :
            /\ Len(t) <= Len(s)
            /\ SubSeq(s, 1, Len(t)) = t
            /\ IsConcatOfAllowed(SubSeq(s, Len(t) + 1, Len(s)))

\* C1: an input the parser accepts, whose canonical form is a concatenation
\* of allowed tokens ('Cl' and 'Br' among them), is returned valid with its
\* canonical string, which is not empty.
C1_AllowedStringIsValid ==
    call.made =>
        LET mol == MolFromSmiles(call.smiles)
        IN  (mol.kind = "Mol" /\ IsConcatOfAllowed(mol.canonical)) =>
                /\ call.is_valid
                /\ call.result = mol.canonical
                /\ call.result # <<>>

\* C2: for an input the parser accepts, the call returns invalid with an
\* 'Unsupported tokens' reason exactly when the tokens of the canonical
\* string (not of the input) minus the allowed set are not empty, the reason
\* naming exactly those tokens; otherwise valid with the canonical string.
C2_UnsupportedIffTokenDifference ==
    call.made =>
        LET mol == MolFromSmiles(call.smiles)
        IN  mol.kind = "Mol" =>
                LET diff == tokenize_smiles(mol.canonical).tokens \ get_allowed_tokens
                IN  IF diff # {}
                    THEN /\ ~call.is_valid
                         /\ call.result.text = "Unsupported tokens: "
                         /\ Range(call.result.set_repr) = diff
                         /\ Len(call.result.set_repr) = Cardinality(diff)
                    ELSE /\ call.is_valid
                         /\ call.result = mol.canonical

\* a call rejected for two unsupported tokens
C2_Witness ==
    /\ call.made
    /\ call.smiles = CBr
    /\ ~call.is_valid
    /\ call.result.set_repr = << <<"r">>, <<"B">> >>

C5_SkippedLinesNotCounted ==
    /\ [](valid_count + invalid_count = NumRecords(infile, line_num))
    /\ [][(line_num' = line_num + 1 /\ IsBlankOrComment(infile[line_num + 1]))
            => UNCHANGED <<valid_count, invalid_count, invalid_reasons, outfile>>]_vars

\* a comment line has been passed after a record was counted
C5_Witness ==
    /\ pc = "loop"
    /\ line_num = 2
    /\ infile[1] = CCO \o <<"\n">>
    /\ infile[2] = <<" ", "#", " ", "c", "\n">>
    /\ valid_count = 1

\* C6: after any prefix of the input the output file holds one line
\* '<canonical SMILES><TAB><name>' per record of the prefix classified valid,
\* in input order, and none for an invalid record; its number of lines is
\* valid_count and the reason tally sums to invalid_count.
C6_OutputIsValidRecordsInOrder ==
    /\ outfile = ExpectedOutput(infile, line_num)
    /\ Len(outfile) = valid_count
    /\ SumTally(invalid_reasons, DOMAIN invalid_reasons) = invalid_count

\* two valid records written, the first under its generated name
C6_Witness ==
    /\ run = 1
    /\ outfile = << CCO \o <<"\t", "m", "o", "l", "_", "1", "\n">>,
                    CCO \o <<"\t", "n", "1", "\n">> >>
    /\ valid_count = 2

\* C7: run on an output file it produced, the program writes that file
\* again line for line, counts every line valid and none invalid.
C7_RerunReproducesOutput ==
    run = 2 =>
        /\ invalid_count = 0
        /\ pc \in {"report", "done", "ZeroDivisionError"} =>
              /\ file_lines(Concat(outfile)) = infile
              /\ valid_count = Len(infile)

\* a second run that ended on an input whose record had no name of its own
C7_Witness ==
    /\ run = 2
    /\ pc = "done"
    /\ infile = << CCO \o <<"\t", "m", "o", "l", "_", "2", "\n">> >>
    /\ outfile = infile

\* C8: with no record counted, the report does not fail with a division by
\* zero.
C8_ReportGuarded ==
    (valid_count + invalid_count = 0) => pc # "ZeroDivisionError"

\* C9: a record classified invalid never stops the run: the loop goes one
\* line at a time, every record of the input gets classified once, and the
\* run reaches the report.
C9_InvalidNeverStopsRun ==
    /\ \A r \in {1, 2} :
          (run = r /\ invalid_count > 0 /\ pc \in {"loop", "report"})
             ~> (/\ run = r
                 /\ pc = "report"
                 /\ line_num = Len(infile)
                 /\ valid_count + invalid_count = NumRecords(infile, Len(infile)))
    /\ [][(pc = "loop" /\ pc' = "loop") => line_num' = line_num + 1]_vars

\* the report reached after a caught exception and a later valid record
C9_Witness ==
    /\ pc = "report"
    /\ Reason("Error: ", <<>>, "str(e)") \in DOMAIN invalid_reasons
    /\ call.made
    /\ call.is_valid

====
